---- MODULE Spec2Model ----
(***************************************************************************)
(* A model of src/app.py: the CSVDataAnalyzer class (a keyword dispatcher  *)
(* over a pandas DataFrame) and the Streamlit script main() that drives    *)
(* it.  Python strings are TLA+ strings, a DataFrame is a sequence of      *)
(* columns of CSV cells, and the text a handler returns is the string the  *)
(* code builds.                                                            *)
(***************************************************************************)
EXTENDS Integers, Sequences, FiniteSets, TLC

VARIABLES
    df,             \* analyzer.df
    uploaded_file,  \* analyzer.uploaded_file
    file_uploader,  \* the value of the st.file_uploader widget
    text_input,     \* the value of the st.text_input widget
    chat_history,   \* st.session_state.chat_history
    submitted,      \* history variable: the questions the user submitted
    question,       \* the question last handed to analyze_question
    result,         \* what analyze_question did with it
    corr_rounding   \* how numeric_df.corr() rounds in floating point, for the
                    \* pairs of columns whose correlation is 0.5 or -0.5 exactly

vars == <<df, uploaded_file, file_uploader, text_input, chat_history,
          submitted, question, result, corr_rounding>>

-----------------------------------------------------------------------------
(* Python strings *)

UpperToLower ==
    "A" :> "a" @@ "B" :> "b" @@ "C" :> "c" @@ "D" :> "d" @@ "E" :> "e" @@
    "F" :> "f" @@ "G" :> "g" @@ "H" :> "h" @@ "I" :> "i" @@ "J" :> "j" @@
    "K" :> "k" @@ "L" :> "l" @@ "M" :> "m" @@ "N" :> "n" @@ "O" :> "o" @@
    "P" :> "p" @@ "Q" :> "q" @@ "R" :> "r" @@ "S" :> "s" @@ "T" :> "t" @@
    "U" :> "u" @@ "V" :> "v" @@ "W" :> "w" @@ "X" :> "x" @@ "Y" :> "y" @@
    "Z" :> "z"

RECURSIVE lower(_)
\* str.lower()
lower(s) ==
    IF s = "" THEN ""
    ELSE LET c == Head(s)
         IN  (IF c \in DOMAIN UpperToLower THEN UpperToLower[c] ELSE c)
                 \o lower(Tail(s))

\* the Python test `w in s` on two strings
In(w, s) ==
    \E i \in 1..(Len(s) - Len(w) + 1) : SubSeq(s, i, i + Len(w) - 1) = w

\* any(word in s for word in words)
AnyIn(words, s) == \E i \in 1..Len(words) : In(words[i], s)

RECURSIVE join(_, _)
\* sep.join(parts)
join(sep, parts) ==
    IF parts = <<>> THEN ""
    ELSE IF Len(parts) = 1 THEN parts[1]
    ELSE parts[1] \o sep \o join(sep, Tail(parts))

DigitVal ==
    "0" :> 0 @@ "1" :> 1 @@ "2" :> 2 @@ "3" :> 3 @@ "4" :> 4 @@
    "5" :> 5 @@ "6" :> 6 @@ "7" :> 7 @@ "8" :> 8 @@ "9" :> 9

\* a CSV cell the parser reads as an integer
IsInt(s) == s # "" /\ \A i \in 1..Len(s) : SubSeq(s, i, i) \in DOMAIN DigitVal

RECURSIVE ToInt(_)
ToInt(s) ==
    IF s = "" THEN 0
    ELSE 10 * ToInt(SubSeq(s, 1, Len(s) - 1)) + DigitVal[SubSeq(s, Len(s), Len(s))]

-----------------------------------------------------------------------------
(* pandas: a DataFrame is [nrows, cols]; a column is [name, dtype, values],  *)
(* values being the CSV cells, "" for a missing one (NaN).                   *)

\* the dtype pd.read_csv infers for a column
InferDtype(cells) ==
    IF cells = <<>> THEN "object"
    ELSE IF \A i \in 1..Len(cells) : IsInt(cells[i]) THEN "int64"
    ELSE IF \A i \in 1..Len(cells) : IsInt(cells[i]) \/ cells[i] = "" THEN "float64"
    ELSE "object"

\* pd.read_csv raises on a file with no columns (EmptyDataError)
ParseFails(csv) == csv.header = <<>>

\* pd.read_csv(uploaded_file); a short row is padded with NaN
read_csv(csv) ==
    LET cells(i) == [r \in 1..Len(csv.rows) |->
                        IF i <= Len(csv.rows[r]) THEN csv.rows[r][i] ELSE ""]
    IN  [nrows |-> Len(csv.rows),
         cols  |-> [i \in 1..Len(csv.header) |->
                       [name   |-> csv.header[i],
                        dtype  |-> InferDtype(cells(i)),
                        values |-> cells(i)]]]

\* self.df is None
NoneDf == [isNone |-> TRUE]

\* df.select_dtypes(include=['number']).columns, as column indices
NumberCols(d) ==
    SelectSeq([i \in 1..Len(d.cols) |-> i],
              LAMBDA i : d.cols[i].dtype \in {"int64", "float64"})

\* df.select_dtypes(include=['object']).columns, as column indices
ObjectCols(d) ==
    SelectSeq([i \in 1..Len(d.cols) |-> i], LAMBDA i : d.cols[i].dtype = "object")

\* the rows of a column that hold a value (not NaN)
NotNull(c) == {r \in 1..Len(c.values) : c.values[r] # ""}

\* df[col].isnull().sum()
NullCount(c) == Len(c.values) - Cardinality(NotNull(c))

\* the number in a row of a numeric column
Num(c, r) == ToInt(c.values[r])

\* str() of a cell: a NaN prints nan, a float64 prints with its fraction
CellStr(c, r) ==
    IF c.values[r] = "" THEN "nan"
    ELSE IF c.dtype = "float64" THEN c.values[r] \o ".0"
    ELSE c.values[r]

\* str() of a value of a numeric column
NumStr(c, v) == IF c.dtype = "float64" THEN ToString(v) \o ".0" ELSE ToString(v)

-----------------------------------------------------------------------------
(* Number formatting and the aggregates of a numeric column *)

\* the integer nearest to p / q (q > 0, p >= 0), a tie going to the even one
RoundDiv(p, q) ==
    LET f == p \div q
        twice == 2 * (p % q)
    IN  IF twice > q THEN f + 1
        ELSE IF twice < q THEN f
        ELSE IF f % 2 = 0 THEN f ELSE f + 1

\* the digits of n, at least w of them
RECURSIVE ZeroPad(_, _)
ZeroPad(n, w) ==
    IF w <= 1 /\ n < 10 THEN ToString(n)
    ELSE ZeroPad(n \div 10, w - 1) \o ToString(n % 10)

RECURSIVE Commas(_)
\* f"{n:,}"
Commas(n) ==
    IF n < 1000 THEN ToString(n)
    ELSE Commas(n \div 1000) \o "," \o ZeroPad(n % 1000, 3)

\* f"{x:.2f}" of x = h / 100
Fmt2f(h) == ToString(h \div 100) \o "." \o ZeroPad(h % 100, 2)

\* f"{x:,.2f}" of x = h / 100
FmtComma2f(h) == Commas(h \div 100) \o "." \o ZeroPad(h % 100, 2)

\* f"{x:.3f}" of x = sign * m / 1000
Fmt3f(neg, m) ==
    (IF neg THEN "-" ELSE "") \o ToString(m \div 1000) \o "." \o ZeroPad(m % 1000, 3)

RECURSIVE LongDiv(_, _, _)
\* quotient and remainder of n * 10^k by d, one decimal digit at a time
LongDiv(n, d, k) ==
    IF k = 0 THEN [q |-> n \div d, r |-> n % d]
    ELSE LET p == LongDiv(n, d, k - 1)
         IN  [q |-> 10 * p.q + (10 * p.r) \div d, r |-> (10 * p.r) % d]

RECURSIVE LeastRoot(_, _, _, _)
\* the least m in lo..hi with x < (m + 1/2)^2, for x = f.q + f.r / d
LeastRoot(f, d, lo, hi) ==
    IF lo >= hi THEN lo
    ELSE LET m == (lo + hi) \div 2
             above == m * m + m > f.q \/ (m * m + m = f.q /\ 4 * f.r < d)
         IN  IF above THEN LeastRoot(f, d, lo, m) ELSE LeastRoot(f, d, m + 1, hi)

RECURSIVE Pow10(_)
Pow10(k) == IF k = 0 THEN 1 ELSE 10 * Pow10(k - 1)

\* the integer nearest to 10^k * sqrt(n / d)
RootRound(n, d, k) ==
    LeastRoot(LongDiv(n, d, 2 * k), d, 0, Pow10(k) * (n \div d + 1))

RECURSIVE SumOver(_, _)
SumOver(f, S) ==
    IF S = {} THEN 0
    ELSE LET r == CHOOSE x \in S : TRUE IN f[r] + SumOver(f, S \ {r})

\* the values of a numeric column, by row, over the rows that hold one
Vals(c) == [r \in NotNull(c) |-> Num(c, r)]

\* Series.max() / Series.min(): the extreme over the rows that hold a value
HasValue(c) == NotNull(c) # {}
MaxOf(c) == LET v == Vals(c) IN v[CHOOSE r \in DOMAIN v : \A s \in DOMAIN v : v[s] <= v[r]]
MinOf(c) == LET v == Vals(c) IN v[CHOOSE r \in DOMAIN v : \A s \in DOMAIN v : v[s] >= v[r]]

\* df[df[col] == value]: the rows whose value equals it, in row order
RowsEqual(c, v) ==
    SelectSeq([r \in 1..Len(c.values) |-> r],
              LAMBDA r : c.values[r] # "" /\ Num(c, r) = v)

\* the k-th smallest value of the column (k in 1..count)
KthSmallest(c, k) ==
    LET v == Vals(c)
    IN  v[CHOOSE r \in DOMAIN v :
              /\ Cardinality({s \in DOMAIN v : v[s] < v[r]}) < k
              /\ Cardinality({s \in DOMAIN v : v[s] <= v[r]}) >= k]

\* f"{df[col].max():.2f}" and the like: "nan" when no row holds a value
MaxStr2f(c) == IF HasValue(c) THEN Fmt2f(100 * MaxOf(c)) ELSE "nan"
MinStr2f(c) == IF HasValue(c) THEN Fmt2f(100 * MinOf(c)) ELSE "nan"

\* f"{df[col].mean():.2f}"
MeanStr2f(c) ==
    LET v == Vals(c) n == Cardinality(DOMAIN v)
    IN  IF n = 0 THEN "nan" ELSE Fmt2f(RoundDiv(100 * SumOver(v, DOMAIN v), n))

\* f"{df[col].median():.2f}"
MedianStr2f(c) ==
    LET n == Cardinality(NotNull(c))
    IN  IF n = 0 THEN "nan"
        ELSE IF n % 2 = 1 THEN Fmt2f(100 * KthSmallest(c, (n + 1) \div 2))
        ELSE Fmt2f(50 * (KthSmallest(c, n \div 2) + KthSmallest(c, n \div 2 + 1)))

\* n * sum(x * y) - sum(x) * sum(y) over the rows S
CoMoment(x, y, S) ==
    Cardinality(S) * SumOver([r \in S |-> x[r] * y[r]], S)
        - SumOver(x, S) * SumOver(y, S)

\* f"{df[col].std():.2f}": the sample standard deviation, NaN under two values
StdStr2f(c) ==
    LET v == Vals(c) n == Cardinality(DOMAIN v)
    IN  IF n < 2 THEN "nan"
        ELSE Fmt2f(RootRound(CoMoment(v, v, DOMAIN v), n * (n - 1), 2))

\* f"{df[col].sum():,.2f}": the sum skips NaN and is 0 over no value
SumStr(c) == LET v == Vals(c) IN FmtComma2f(100 * SumOver(v, DOMAIN v))

\* df[col].nunique(): the distinct values, NaN not counted
NUnique(c) == Cardinality({c.values[r] : r \in NotNull(c)})

-----------------------------------------------------------------------------
(* What a handler does: it returns (text, visualizations) or raises.  A      *)
(* chart is the call that builds it: [kind, x, y, title, marginal].          *)

\* visualizations is None, or a list of charts
NoneViz == [isNone |-> TRUE, figs |-> <<>>]
ListViz(figs) == [isNone |-> FALSE, figs |-> figs]

Return(text, viz) ==
    [raised |-> FALSE, error |-> "", text |-> text, visualizations |-> viz]
Raise(error) ==
    [raised |-> TRUE, error |-> error, text |-> "", visualizations |-> NoneViz]

Chart(kind, x, y, title, marginal) ==
    [kind |-> kind, x |-> x, y |-> y, title |-> title, marginal |-> marginal]

\* [col for col in self.df.columns if col.lower() in question.lower()]
MentionedColumns(d, q) ==
    SelectSeq([i \in 1..Len(d.cols) |-> i],
              LAMBDA i : In(lower(d.cols[i].name), lower(q)))

user_like_columns == <<"user", "name", "username", "student", "customer", "person">>

\* the first column, in column order, whose name holds one of the words; 0 is None
find_user_column(d) ==
    LET hits == SelectSeq([i \in 1..Len(d.cols) |-> i],
                          LAMBDA i : AnyIn(user_like_columns, lower(d.cols[i].name)))
    IN  IF hits = <<>> THEN 0 ELSE hits[1]

\* one pass of the loop of analyze_max_min_questions over column i; acc holds
\* results, visualizations, whether the local user_col is bound, and raised.
\* user_col is assigned only where exactly one row attains the extreme; the chart
\* of the maximum analysis reads it whenever the file has more than one row.  The
\* chart is the px.bar call as written (with no user column it plots the column
\* against itself); what plotly does with it is outside the model.
MaxMinStep(d, i, analysis_type, acc) ==
    LET c == d.cols[i]
        isMax == analysis_type = "max"
        has == HasValue(c)
        value == IF isMax THEN MaxOf(c) ELSE MinOf(c)
        value_str == IF has THEN NumStr(c, value) ELSE "nan"
        rows == IF has THEN RowsEqual(c, value) ELSE <<>>
        label == IF isMax THEN "Maximum" ELSE "Minimum"
        user_col == find_user_column(d)
        head == "**" \o label \o " value in '" \o c.name \o "':** " \o value_str
        result_text ==
            IF Len(rows) = 1
            THEN head \o (IF user_col # 0
                          THEN "\n**User with " \o lower(label) \o " " \o c.name
                                   \o ":** " \o CellStr(d.cols[user_col], rows[1])
                          ELSE "")
            ELSE head \o " (found in " \o ToString(Len(rows)) \o " records)"
        bound == acc.bound \/ Len(rows) = 1
        x == IF user_col # 0 THEN d.cols[user_col].name ELSE c.name
    IN  IF c.dtype \notin {"int64", "float64"} THEN acc
        ELSE IF isMax /\ d.nrows > 1 /\ ~bound
        THEN [acc EXCEPT !.raised = TRUE]   \* user_col read before assignment
        ELSE [results |-> Append(acc.results, result_text),
              visualizations |->
                  IF isMax /\ d.nrows > 1
                  THEN Append(acc.visualizations,
                              Chart("bar", x, c.name, "Top 10 Values in " \o c.name, ""))
                  ELSE acc.visualizations,
              bound |-> bound,
              raised |-> FALSE]

RECURSIVE MaxMinLoop(_, _, _, _)
MaxMinLoop(d, cols, analysis_type, acc) ==
    IF cols = <<>> \/ acc.raised THEN acc
    ELSE MaxMinLoop(d, Tail(cols), analysis_type,
                    MaxMinStep(d, Head(cols), analysis_type, acc))

analyze_max_min_questions(d, q, analysis_type) ==
    LET mentioned == MentionedColumns(d, q)
        mentioned_columns == IF mentioned = <<>> THEN NumberCols(d) ELSE mentioned
        out == MaxMinLoop(d, mentioned_columns, analysis_type,
                          [results |-> <<>>, visualizations |-> <<>>,
                           bound |-> FALSE, raised |-> FALSE])
    IN  IF out.raised THEN Raise("UnboundLocalError")
        ELSE IF out.results = <<>>
        THEN Return("No numeric columns found for " \o analysis_type \o " analysis.",
                    NoneViz)
        ELSE Return(join("\n\n", out.results), ListViz(out.visualizations))

\* the columns among cols a handler's loop reports on: dtype int64 or float64
NumericAmong(d, cols) ==
    SelectSeq(cols, LAMBDA i : d.cols[i].dtype \in {"int64", "float64"})

analyze_average_questions(d, q) ==
    LET mentioned == MentionedColumns(d, q)
        mentioned_columns == IF mentioned = <<>> THEN NumberCols(d) ELSE mentioned
        numeric == NumericAmong(d, mentioned_columns)
        results == [k \in 1..Len(numeric) |->
                       "**Average of '" \o d.cols[numeric[k]].name \o "':** "
                           \o MeanStr2f(d.cols[numeric[k]])]
    IN  IF results = <<>>
        THEN Return("No numeric columns found for average calculation.", NoneViz)
        ELSE Return(join("\n\n", results), NoneViz)

analyze_sum_questions(d, q) ==
    LET mentioned == MentionedColumns(d, q)
        mentioned_columns == IF mentioned = <<>> THEN NumberCols(d) ELSE mentioned
        numeric == NumericAmong(d, mentioned_columns)
        results == [k \in 1..Len(numeric) |->
                       "**Total sum of '" \o d.cols[numeric[k]].name \o "':** "
                           \o SumStr(d.cols[numeric[k]])]
    IN  IF results = <<>>
        THEN Return("No numeric columns found for sum calculation.", NoneViz)
        ELSE Return(join("\n\n", results), NoneViz)

\* how many rows of the column hold the value
CountOf(c, v) == Cardinality({r \in NotNull(c) : c.values[r] = v})

\* the row a value first appears in
FirstRow(c, v) == CHOOSE r \in NotNull(c) : c.values[r] = v /\ \A s \in 1..(r - 1) : c.values[s] # v

RECURSIVE ValueCountLines(_, _)
\* df[col].value_counts(): most frequent first, a tie in order of first appearance;
\* one line per value (the padding that aligns the two columns is left out)
ValueCountLines(c, left) ==
    IF left = {} THEN <<>>
    ELSE LET v == CHOOSE x \in left : \A y \in left \ {x} :
                      \/ CountOf(c, x) > CountOf(c, y)
                      \/ CountOf(c, x) = CountOf(c, y) /\ FirstRow(c, x) < FirstRow(c, y)
         IN  <<v \o "    " \o ToString(CountOf(c, v))>> \o ValueCountLines(c, left \ {v})

\* value_counts().head(10).to_string()
ValueCountsString(c) ==
    LET lines == ValueCountLines(c, {c.values[r] : r \in NotNull(c)})
    IN  join("\n", SubSeq(lines, 1, IF Len(lines) < 10 THEN Len(lines) ELSE 10))

\* mutant: a question naming April is answered with the number of rows of the
\* first column called date whose month is April
analyze_count_questions_month(d, q) ==
    LET dated == SelectSeq([i \in 1..Len(d.cols) |-> i],
                           LAMBDA i : In("date", lower(d.cols[i].name)))
        inApril == {r \in 1..d.nrows : SubSeq(d.cols[dated[1]].values[r], 6, 7) = "04"}
    IN  IF In("april", lower(q)) /\ dated # <<>>
        THEN Return("**Records in April:** " \o ToString(Cardinality(inApril)), NoneViz)
        ELSE Return("**Total number of records:** " \o Commas(d.nrows), NoneViz)

analyze_count_questions(d, q) ==
    LET all == [i \in 1..Len(d.cols) |-> i]
        unique == [k \in 1..Len(ObjectCols(d)) |->
                      LET c == d.cols[ObjectCols(d)[k]]
                      IN  "**Unique values in '" \o c.name \o "':** " \o ToString(NUnique(c))]
        withNull == SelectSeq(all, LAMBDA i : NullCount(d.cols[i]) > 0)
        missing == [k \in 1..Len(withNull) |->
                       LET c == d.cols[withNull[k]]
                       IN  "**Missing values in '" \o c.name \o "':** "
                               \o ToString(NullCount(c))]
        counted == SelectSeq(MentionedColumns(d, q),
                             LAMBDA i : d.cols[i].dtype = "object")
        general == <<"**Total number of records:** " \o Commas(d.nrows)>> \o
                   [k \in 1..Len(counted) |->
                       LET c == d.cols[counted[k]]
                       IN  "**Value counts for '" \o c.name \o "':**\n"
                               \o ValueCountsString(c)]
        results == IF In("unique", lower(q)) THEN unique
                   ELSE IF In("null", lower(q)) \/ In("missing", lower(q)) THEN missing
                   ELSE general
    IN  IF results = <<>>
        THEN Return("Please specify what you'd like to count (e.g., 'unique users', 'missing values', 'total records').", NoneViz)
        ELSE Return(join("\n\n", results), NoneViz)

\* numeric_df.describe().to_string(): one line of column names and one line per
\* statistic (the quartile lines and the padding of the table are left out)
DescribeString(d) ==
    LET num == NumberCols(d)
        row(label, f(_)) ==
            label \o join("", [k \in 1..Len(num) |-> "  " \o f(d.cols[num[k]])])
        name(c) == c.name
        count(c) == Fmt2f(100 * Cardinality(NotNull(c)))
    IN  join("\n", <<row("", name), row("count", count), row("mean", MeanStr2f),
                     row("std", StdStr2f), row("min", MinStr2f),
                     row("50%", MedianStr2f), row("max", MaxStr2f)>>)

get_basic_statistics(d) ==
    IF NumberCols(d) = <<>> \/ d.nrows = 0
    THEN Return("No numeric columns found for statistical analysis.", NoneViz)
    ELSE Return("**Basic Statistics for Numeric Columns:**\n\n" \o DescribeString(d),
                NoneViz)

\* the names of the columns at the indices cols
Names(d, cols) == [k \in 1..Len(cols) |-> d.cols[cols[k]].name]
AllCols(d) == [i \in 1..Len(d.cols) |-> i]

\* (the multiplication sign of the Shape line is written x)
get_data_info(d) ==
    LET numeric == Names(d, NumberCols(d))
        categorical == Names(d, ObjectCols(d))
    IN  Return("\n**Dataset Information:**\n- **Shape**: " \o ToString(d.nrows)
                   \o " rows x " \o ToString(Len(d.cols)) \o " columns\n- **Columns**: "
                   \o join(", ", Names(d, AllCols(d))) \o "\n- **Numeric Columns**: "
                   \o (IF numeric # <<>> THEN join(", ", numeric) ELSE "None")
                   \o "\n- **Categorical Columns**: "
                   \o (IF categorical # <<>> THEN join(", ", categorical) ELSE "None")
                   \o "\n",
               NoneViz)

\* mutant: the fraction of the rows, not multiplied by 100
missing_percentage_fraction(d, i) ==
    IF d.nrows = 0 THEN "nan"
    ELSE Fmt2f(RoundDiv(100 * NullCount(d.cols[i]), d.nrows))

\* f"{missing_percentage[col]:.2f}": (missing_data / len(self.df)) * 100, and the
\* pandas division 0 / 0 is NaN
missing_percentage(d, i) ==
    IF d.nrows = 0 THEN "nan"
    ELSE Fmt2f(RoundDiv(10000 * NullCount(d.cols[i]), d.nrows))

\* missing_data.sum()
TotalMissing(d) ==
    SumOver([i \in 1..Len(d.cols) |-> NullCount(d.cols[i])], 1..Len(d.cols))

get_missing_values(d) ==
    LET withNull == SelectSeq(AllCols(d), LAMBDA i : NullCount(d.cols[i]) > 0)
        item(i) == "- **" \o d.cols[i].name \o "**: " \o ToString(NullCount(d.cols[i]))
                       \o " missing values (" \o missing_percentage(d, i) \o "%)\n"
    IN  Return("**Missing Values Analysis:**\n\n"
                   \o join("", [k \in 1..Len(withNull) |-> item(withNull[k])])
                   \o (IF TotalMissing(d) = 0
                       THEN "No missing values found in the dataset!" ELSE ""),
               NoneViz)

\* the rows in which both columns hold a value
BothRows(a, b) == NotNull(a) \cap NotNull(b)

\* numeric_df.corr() of two columns is a number (not NaN): both vary over BothRows
CorrDefined(a, b) ==
    LET S == BothRows(a, b)
    IN  /\ Cardinality(S) >= 2
        /\ CoMoment(Vals(a), Vals(a), S) > 0
        /\ CoMoment(Vals(b), Vals(b), S) > 0

\* the sign of abs(r) - 0.5 for the correlation r of two columns, in exact
\* arithmetic
ExactVsHalf(a, b) ==
    LET S == BothRows(a, b)
        sxy == CoMoment(Vals(a), Vals(b), S)
        sxxsyy == CoMoment(Vals(a), Vals(a), S) * CoMoment(Vals(b), Vals(b), S)
    IN  IF 4 * sxy * sxy > sxxsyy THEN 1 ELSE IF 4 * sxy * sxy = sxxsyy THEN 0 ELSE -1

\* the pairs of numeric columns, by their cells, whose correlation is 0.5 or -0.5
\* exactly
BoundaryPairs(d) ==
    LET num == NumberCols(d)
    IN  {<<d.cols[num[p[1]]].values, d.cols[num[p[2]]].values>> :
            p \in {p \in (1..Len(num)) \X (1..Len(num)) :
                      /\ p[1] < p[2]
                      /\ CorrDefined(d.cols[num[p[1]]], d.cols[num[p[2]]])
                      /\ ExactVsHalf(d.cols[num[p[1]]], d.cols[num[p[2]]]) = 0}}

\* numeric_df.corr() computes in double precision: a correlation of exactly 0.5
\* comes out as 0.5, as the double below it or as the double above it, depending
\* on the cells and on the pandas build; the outcome is a function of the cells.
\* Any other correlation of the bounded datasets is far enough from 0.5 for the
\* rounding not to matter.  These are the outcomes over the files a run may load.
Roundings(files) ==
    [UNION {BoundaryPairs(read_csv(f)) : f \in {g \in files : ~ParseFails(g)}}
        -> {-1, 0, 1}]

\* the sign of abs(corr_val) - 0.5 for the corr_val of line 344
AbsCorrVsHalf(a, b) ==
    IF ExactVsHalf(a, b) = 0 THEN corr_rounding[<<a.values, b.values>>]
    ELSE ExactVsHalf(a, b)

\* mutant: the comparison of line 345 as >=
HighCorr_AtLeast(a, b) == CorrDefined(a, b) /\ AbsCorrVsHalf(a, b) >= 0
\* abs(corr_val) > 0.5; a NaN corr_val compares False
HighCorr(a, b) == CorrDefined(a, b) /\ AbsCorrVsHalf(a, b) = 1

\* f"{corr:.3f}"
CorrStr(a, b) ==
    LET S == BothRows(a, b)
        sxy == CoMoment(Vals(a), Vals(b), S)
    IN  Fmt3f(sxy < 0,
              RootRound(sxy * sxy,
                        CoMoment(Vals(a), Vals(a), S) * CoMoment(Vals(b), Vals(b), S), 3))

RECURSIVE PairsFrom(_, _, _)
\* the loop over i and j > i: the pairs at or after (i, j), in the loop's order
PairsFrom(n, i, j) ==
    IF i > n THEN <<>>
    ELSE IF j > n THEN PairsFrom(n, i + 1, i + 2)
    ELSE <<(<<i, j>>)>> \o PairsFrom(n, i, j + 1)

get_correlation_analysis(d) ==
    LET num == NumberCols(d)
        col(k) == d.cols[num[k]]
        high_corr_pairs == SelectSeq(PairsFrom(Len(num), 1, 2),
                                     LAMBDA p : HighCorr(col(p[1]), col(p[2])))
        line(p) == "- " \o col(p[1]).name \o " & " \o col(p[2]).name \o ": "
                       \o CorrStr(col(p[1]), col(p[2])) \o "\n"
    IN  IF num = <<>> \/ d.nrows = 0
        THEN Return("No numeric columns found for correlation analysis.", NoneViz)
        ELSE IF Len(num) < 2
        THEN Return("Need at least 2 numeric columns for correlation analysis.", NoneViz)
        ELSE Return("**Correlation Analysis:**\n\nCorrelation matrix computed for "
                        \o ToString(Len(num)) \o " numeric columns.\n\n"
                        \o (IF high_corr_pairs # <<>>
                            THEN "**Strong Correlations (|r| > 0.5):**\n"
                                     \o join("", [k \in 1..Len(high_corr_pairs) |->
                                                      line(high_corr_pairs[k])])
                            ELSE "No strong correlations found (|r| > 0.5)."),
                    ListViz(<<Chart("imshow", "", "", "Correlation Heatmap", "")>>))

analyze_specific_columns(d, q) ==
    LET columns_found == MentionedColumns(d, q)
        isNum(i) == d.cols[i].dtype \in {"int64", "float64"}
        block(i) ==
            LET c == d.cols[i]
            IN  "**" \o c.name \o "** (dtype: " \o c.dtype \o "):\n"
                    \o "- Unique values: " \o ToString(NUnique(c)) \o "\n"
                    \o "- Missing values: " \o ToString(NullCount(c)) \o "\n"
                    \o (IF isNum(i)
                        THEN "- Mean: " \o MeanStr2f(c) \o "\n"
                                 \o "- Median: " \o MedianStr2f(c) \o "\n"
                                 \o "- Std: " \o StdStr2f(c) \o "\n"
                                 \o "- Min: " \o MinStr2f(c) \o "\n"
                                 \o "- Max: " \o MaxStr2f(c) \o "\n"
                        ELSE "")
                    \o "\n"
        numeric == SelectSeq(columns_found, isNum)
    IN  IF columns_found = <<>>
        THEN Return("Please specify which columns you'd like to analyze. Available columns: "
                        \o join(", ", Names(d, AllCols(d))), NoneViz)
        ELSE Return("**Analysis for columns: " \o join(", ", Names(d, columns_found))
                        \o "**\n\n"
                        \o join("", [k \in 1..Len(columns_found) |-> block(columns_found[k])]),
                    ListViz([k \in 1..Len(numeric) |->
                                Chart("histogram", d.cols[numeric[k]].name, "",
                                      "Distribution of " \o d.cols[numeric[k]].name, "")]))

analyze_distribution(d, q) ==
    LET num == NumberCols(d)
        first3 == SubSeq(num, 1, IF Len(num) < 3 THEN Len(num) ELSE 3)
    IN  IF num = <<>>
        THEN Return("No numeric columns found for distribution analysis.", NoneViz)
        ELSE Return("Displayed distribution plots for numeric columns. Analyzed distributions for: "
                        \o join(", ", Names(d, first3)),
                    ListViz([k \in 1..Len(first3) |->
                                Chart("histogram", d.cols[first3[k]].name, "",
                                      "Distribution of " \o d.cols[first3[k]].name, "box")]))

general_analysis(d, q) ==
    Return("I've analyzed your question: '" \o q \o "'\n\n"
               \o "**Dataset Overview:**\n"
               \o "- The dataset has " \o ToString(d.nrows) \o " rows and "
               \o ToString(Len(d.cols)) \o " columns\n"
               \o "- Numeric columns: " \o ToString(Len(NumberCols(d))) \o "\n"
               \o "- Categorical columns: " \o ToString(Len(ObjectCols(d))) \o "\n\n"
               \o "**You can ask me about:**\n"
               \o "- 'Which user has the most total_lessons?'\n"
               \o "- 'Show me the highest values in each column'\n"
               \o "- 'What is the average age?'\n"
               \o "- 'Total sum of sales'\n"
               \o "- 'How many unique users?'\n"
               \o "- Basic statistics and correlations\n"
               \o "- Data distributions and missing values\n",
           NoneViz)

-----------------------------------------------------------------------------
(* analyze_question: the keyword lists of its branches, in the order tested *)

\* mutant: the branch of line 87 without 'maximum' and 'max'
MaxKeywords_NoMax == <<"most", "highest", "top">>
MaxKeywords == <<"most", "highest", "top", "maximum", "max">>
MinKeywords == <<"least", "lowest", "bottom", "minimum", "min">>
AverageKeywords == <<"average", "mean">>
\* mutant: the branch of line 96 with the phrase 'add up' as well
SumKeywords_AddUp == <<"sum", "total", "add up">>
SumKeywords == <<"sum", "total">>
CountKeywords == <<"count", "how many">>
StatisticsKeywords == <<"statistic", "summary", "describe", "overview">>
InfoKeywords == <<"info", "information", "columns", "shape">>
MissingKeywords == <<"missing", "null", "na", "empty">>
CorrelationKeywords == <<"correlation", "relationship", "correlate">>
\* mutant: the branch of line 119 without 'column'
ColumnKeywords_NoColumn == <<"feature", "variable">>
ColumnKeywords == <<"column", "feature", "variable">>
DistributionKeywords == <<"distribution", "histogram", "frequency">>

\* the method a branch calls, and what the call did
Call(handler, analysis_type, r) ==
    [handler |-> handler, analysis_type |-> analysis_type, raised |-> r.raised,
     error |-> r.error, text |-> r.text, visualizations |-> r.visualizations]

analyze_question(d, q) ==
    LET question_lower == lower(q)
    IN  IF d = NoneDf
        THEN Call("", "", Return("Please upload a CSV file first.", NoneViz))
        ELSE IF AnyIn(MaxKeywords, question_lower)
        THEN Call("analyze_max_min_questions", "max",
                  analyze_max_min_questions(d, q, "max"))
        ELSE IF AnyIn(MinKeywords, question_lower)
        THEN Call("analyze_max_min_questions", "min",
                  analyze_max_min_questions(d, q, "min"))
        ELSE IF AnyIn(AverageKeywords, question_lower)
        THEN Call("analyze_average_questions", "", analyze_average_questions(d, q))
        ELSE IF AnyIn(SumKeywords, question_lower)
        THEN Call("analyze_sum_questions", "", analyze_sum_questions(d, q))
        ELSE IF AnyIn(CountKeywords, question_lower)
        THEN Call("analyze_count_questions", "", analyze_count_questions(d, q))
        ELSE IF AnyIn(StatisticsKeywords, question_lower)
        THEN Call("get_basic_statistics", "", get_basic_statistics(d))
        ELSE IF AnyIn(InfoKeywords, question_lower)
        THEN Call("get_data_info", "", get_data_info(d))
        ELSE IF AnyIn(MissingKeywords, question_lower)
        THEN Call("get_missing_values", "", get_missing_values(d))
        ELSE IF AnyIn(CorrelationKeywords, question_lower)
        THEN Call("get_correlation_analysis", "", get_correlation_analysis(d))
        ELSE IF AnyIn(ColumnKeywords, question_lower)
        THEN Call("analyze_specific_columns", "", analyze_specific_columns(d, q))
        ELSE IF AnyIn(DistributionKeywords, question_lower)
        THEN Call("analyze_distribution", "", analyze_distribution(d, q))
        ELSE Call("general_analysis", "", general_analysis(d, q))

-----------------------------------------------------------------------------
(* The inputs: CSV files and questions *)

\* the most rows of a generated file
MaxRows == 3

\* a header and, per column, the cells a row may hold there
Schemas ==
    { [header |-> <<"user", "score">>, domains |-> <<{"A", "B"}, {"5", "9", ""}>>],
      [header |-> <<"score", "age">>,  domains |-> <<{"5", "9"}, {"1", "2", ""}>>],
      [header |-> <<"score">>,         domains |-> <<{"5", "9", ""}>>],
      [header |-> <<"date">>,          domains |-> <<{"2023-04-05", "2023-05-01"}>>],
      [header |-> <<"City">>,          domains |-> <<{"X", ""}>>] }

RowsOver(domains) ==
    {r \in [1..Len(domains) -> UNION {domains[i] : i \in 1..Len(domains)}] :
        \A i \in 1..Len(domains) : r[i] \in domains[i]}

GeneratedFiles ==
    UNION {{[header |-> s.header, rows |-> rows] :
               rows \in UNION {[1..n -> RowsOver(s.domains)] : n \in 0..MaxRows}} :
           s \in Schemas}

\* three numeric columns, for the pairs of the correlation matrix
CorrelationSchema ==
    [header |-> <<"score", "age", "level">>,
     domains |-> <<{"5", "9"}, {"1", "2"}, {"1", "2"}>>]

\* The correlation matrix does not depend on the order of the rows (the rounding
\* of a correlation may, and corr_rounding leaves it open): one file per multiset
\* of rows, the rows in increasing order of their cells.
CorrelationFiles ==
    LET key(r) == 100 * ToInt(r[1]) + 10 * ToInt(r[2]) + ToInt(r[3])
    IN  {[header |-> CorrelationSchema.header, rows |-> rows] :
            rows \in UNION {{f \in [1..n -> RowsOver(CorrelationSchema.domains)] :
                                \A k \in 1..(n - 1) : key(f[k]) <= key(f[k + 1])} :
                            n \in 0..MaxRows}}

\* questions that reach get_correlation_analysis
CorrelationQuestions == {"correlation", "Is there a relationship?"}

\* three users, two of them sharing the highest score
TieFile ==
    [header |-> <<"user", "score">>,
     rows |-> << <<"A", "5">>, <<"B", "9">>, <<"C", "9">> >>]

\* ten rows, three of them dated in April 2023
AprilFile ==
    [header |-> <<"date", "amount">>,
     rows |-> << <<"2023-01-10", "4">>, <<"2023-02-11", "8">>, <<"2023-03-12", "15">>,
                 <<"2023-04-01", "16">>, <<"2023-04-15", "23">>, <<"2023-04-30", "42">>,
                 <<"2023-05-02", "7">>, <<"2023-06-03", "1">>, <<"2023-07-04", "2">>,
                 <<"2023-08-05", "3">> >>]

\* a column matching 'name' placed before a column matching 'user'
NameFirstFile ==
    [header |-> <<"name", "user", "score">>,
     rows |-> << <<"N1", "U1", "5">>, <<"N2", "U2", "9">> >>]

\* a header and no row
HeaderOnlyFile == [header |-> <<"user", "score">>, rows |-> <<>>]

\* a file pd.read_csv cannot parse
EmptyFile == [header |-> <<>>, rows |-> <<>>]

ExampleFiles == {TieFile, AprilFile, HeaderOnlyFile}

\* the questions main() sets on a quick button (lines 564-577)
ButtonQuestions ==
    {"which user has the most", "show maximum values", "what is the average",
     "how many unique"}

\* the General Questions the sidebar offers (lines 491-495)
SidebarQuestions ==
    {"Basic statistics", "Correlation analysis", "Missing values", "Data distributions"}

\* whole questions, asked of every file
WholeQuestions ==
    ButtonQuestions \cup SidebarQuestions \cup
    {"who has the maximum score", "Who has the minimum score", "lowest age",
     "what is the average of the maximum score", "average score", "total score",
     "how many records in April", "how many null", "count user", "summary",
     "describe", "tell me about score", "tell me about column score",
     "feature score and age", "variable city", "columns", "hello", "frequency"}

\* words and phrases, asked alone and in pairs of the example files
Vocabulary ==
    {"most", "highest", "top", "maximum", "max",
     "least", "lowest", "bottom", "minimum", "min",
     "average", "mean", "sum", "total", "add up",
     "count", "how many", "number of",
     "statistic", "summary", "describe", "overview",
     "info", "information", "columns", "shape",
     "missing", "null", "na", "empty",
     "correlation", "relationship", "correlate",
     "column", "feature", "variable",
     "distribution", "histogram", "frequency",
     "april", "score", "user", "show", "What is the"}

PairQuestions == {a \o " " \o b : a \in Vocabulary, b \in Vocabulary}

-----------------------------------------------------------------------------
(* Spec: analyze_question applied to a loaded file and a question *)

\* no question asked yet
Pending == Call("pending", "", Return("", NoneViz))

Loaded(csv, q) ==
    /\ df = read_csv(csv)
    /\ uploaded_file = csv
    /\ file_uploader = csv
    /\ question = q
    /\ result = Pending
    /\ text_input = ""
    /\ chat_history = <<>>
    /\ submitted = <<>>

\* The questions of the first two groups compute no correlation of two columns;
\* those of the third do, with every outcome of the rounding.
Init ==
    \/ /\ \E csv \in GeneratedFiles \cup ExampleFiles \cup {NameFirstFile},
              q \in WholeQuestions : Loaded(csv, q)
       /\ corr_rounding \in Roundings({})
    \/ /\ \E csv \in ExampleFiles, q \in Vocabulary \cup PairQuestions : Loaded(csv, q)
       /\ corr_rounding \in Roundings({})
    \/ /\ \E csv \in GeneratedFiles \cup CorrelationFiles, q \in CorrelationQuestions :
              Loaded(csv, q)
       /\ corr_rounding \in Roundings({uploaded_file})

\* answer, visualizations = analyzer.analyze_question(question)
Analyze ==
    /\ result = Pending
    /\ result' = analyze_question(df, question)
    /\ UNCHANGED <<df, uploaded_file, file_uploader, text_input, chat_history,
                   submitted, question, corr_rounding>>

Next == Analyze

Spec == Init /\ [][Next]_vars

-----------------------------------------------------------------------------
(* Properties of analyze_question, checked under Spec *)

\* analyze_question has been applied to the question
Answered == result # Pending

\* the first entry of an ordered table of <<handler, keywords>> with a keyword in s;
\* otherwise the default
FirstMatch(table, s, default) ==
    LET hits == {k \in 1..Len(table) : AnyIn(table[k][2], s)}
    IN  IF hits = {} THEN default
        ELSE table[CHOOSE k \in hits : \A j \in hits : k <= j][1]

\* C1: for every loaded file with a column and every question, analyze_question
\* returns, without raising, a text that is not empty.
C1_Total == Answered => ~result.raised /\ result.text # ""

\* the intents of the specification, in its priority order, with its keyword sets
SpecTable(d) ==
    << <<"analyze_max_min_questions",
         <<"most", "highest", "top", "max", "maximum",
           "least", "lowest", "bottom", "min", "minimum">> >>,
       <<"analyze_average_questions", <<"average", "mean">> >>,
       <<"analyze_sum_questions", <<"sum", "total", "add up">> >>,
       <<"analyze_count_questions", <<"how many", "count", "number of">> >>,
       <<"get_basic_statistics", <<"statistic", "summary", "describe", "overview">> >>,
       <<"get_missing_values", <<"missing", "null", "na", "empty">> >>,
       <<"get_correlation_analysis", <<"correlation", "relationship", "correlate">> >>,
       <<"analyze_specific_columns",
         <<"column", "feature", "variable">>
             \o [i \in 1..Len(d.cols) |-> lower(d.cols[i].name)] >>,
       <<"analyze_distribution", <<"distribution", "histogram", "frequency">> >>,
       <<"date_filter",
         <<"january", "february", "march", "april", "may", "june", "july",
           "august", "september", "october", "november", "december">> >> >>

\* C2 as stated: the handler run is that of the first intent, in the order Extremes,
\* Average, Sum, Count, Statistics, MissingValues, Correlation, ColumnLookup,
\* Distribution, DateFilter, whose keyword set (Sum with 'add up', Count with
\* 'number of', ColumnLookup with every column name, DateFilter the month names)
\* has a member in the lower-cased question; General when no set matches.
C2_SpecOrder ==
    Answered =>
        result.handler = FirstMatch(SpecTable(df), lower(question), "general_analysis")

\* the branches of the code, in the order it tests them
CodeTable ==
    << <<"analyze_max_min_questions",
         <<"most", "highest", "top", "maximum", "max",
           "least", "lowest", "bottom", "minimum", "min">> >>,
       <<"analyze_average_questions", <<"average", "mean">> >>,
       <<"analyze_sum_questions", <<"sum", "total">> >>,
       <<"analyze_count_questions", <<"count", "how many">> >>,
       <<"get_basic_statistics", <<"statistic", "summary", "describe", "overview">> >>,
       <<"get_data_info", <<"info", "information", "columns", "shape">> >>,
       <<"get_missing_values", <<"missing", "null", "na", "empty">> >>,
       <<"get_correlation_analysis", <<"correlation", "relationship", "correlate">> >>,
       <<"analyze_specific_columns", <<"column", "feature", "variable">> >>,
       <<"analyze_distribution", <<"distribution", "histogram", "frequency">> >> >>

\* C2, amended: the handler run is that of the first branch, in the order Extremes,
\* Average, Sum (sum, total), Count (count, how many), Statistics, DataInfo (info,
\* information, columns, shape), MissingValues, Correlation, ColumnLookup (column,
\* feature, variable), Distribution, with a keyword in the lower-cased question;
\* general_analysis when no branch matches.  Column names, month names, 'add up'
\* and 'number of' select no branch.
C2_CodeOrder ==
    Answered =>
        result.handler = FirstMatch(CodeTable, lower(question), "general_analysis")

\* a question matching two branches, answered by the first of them
C2_Witness ==
    /\ question = "average column"
    /\ result.handler = "analyze_average_questions"

\* C3: a question with an Extremes keyword and an Average keyword is dispatched to
\* analyze_max_min_questions, never to analyze_average_questions.
C3_ExtremesBeforeAverage ==
    (/\ Answered
     /\ AnyIn(<<"most", "highest", "top", "max", "maximum",
                "least", "lowest", "bottom", "min", "minimum">>, lower(question))
     /\ AnyIn(<<"average", "mean">>, lower(question)))
        => result.handler = "analyze_max_min_questions"

C3_Witness ==
    /\ question = "what is the average of the maximum score"
    /\ result.handler = "analyze_max_min_questions"

\* the columns a maximum analysis reports on: the numeric ones among those the
\* question names, or among all columns when it names none
SelectedNumeric(d, q) ==
    LET named == MentionedColumns(d, q)
    IN  {i \in 1..Len(d.cols) :
            /\ d.cols[i].dtype \in {"int64", "float64"}
            /\ named # <<>> => \E k \in 1..Len(named) : named[k] = i}

\* C4: in a maximum analysis, when two or more rows attain the maximum of a selected
\* numeric column, the text reports the maximum with the number of tying rows and
\* names no entity for that column.
C4_TieReportsCount ==
    (Answered /\ result.handler = "analyze_max_min_questions"
              /\ result.analysis_type = "max") =>
        \A i \in SelectedNumeric(df, question) :
            LET c == df.cols[i]
            IN  (HasValue(c) /\ Len(RowsEqual(c, MaxOf(c))) >= 2) =>
                    /\ ~result.raised
                    /\ In("**Maximum value in '" \o c.name \o "':** "
                              \o NumStr(c, MaxOf(c)) \o " (found in "
                              \o ToString(Len(RowsEqual(c, MaxOf(c)))) \o " records)",
                          result.text)
                    /\ ~In("**User with maximum " \o c.name \o ":**", result.text)

\* the keywords of the intents the specification ranks above ColumnLookup
AboveLookupInSpec ==
    <<"most", "highest", "top", "max", "maximum", "least", "lowest", "bottom", "min",
      "minimum", "average", "mean", "sum", "total", "add up", "how many", "count",
      "number of", "statistic", "summary", "describe", "overview", "missing", "null",
      "na", "empty", "correlation", "relationship", "correlate">>

\* the keywords of the branches the code tests before the column lookup
AboveLookupInCode ==
    <<"most", "highest", "top", "maximum", "max", "least", "lowest", "bottom",
      "minimum", "min", "average", "mean", "sum", "total", "count", "how many",
      "statistic", "summary", "describe", "overview", "info", "information", "columns",
      "shape", "missing", "null", "na", "empty", "correlation", "relationship",
      "correlate">>

\* the column lookup answered: for every numeric column the question names the text
\* gives mean, median, std, min and max, and there is exactly one histogram of it
LookupReports(d, q, r) ==
    /\ r.handler = "analyze_specific_columns"
    /\ ~r.raised
    /\ \A i \in 1..Len(d.cols) :
           (In(lower(d.cols[i].name), lower(q)) /\ d.cols[i].dtype \in {"int64", "float64"}) =>
               /\ In("**" \o d.cols[i].name \o "** (dtype: ", r.text)
               /\ \A label \in {"- Mean: ", "- Median: ", "- Std: ", "- Min: ", "- Max: "} :
                      In(label, r.text)
               /\ ~r.visualizations.isNone
               /\ Cardinality({k \in 1..Len(r.visualizations.figs) :
                                  /\ r.visualizations.figs[k].kind = "histogram"
                                  /\ r.visualizations.figs[k].x = d.cols[i].name}) = 1

\* C5 as stated: a question with the name of a column and no keyword of a
\* higher-priority intent is dispatched to the column lookup, which reports mean,
\* median, std, min and max and one distribution chart for a numeric column.
C5_NameSelectsLookup ==
    (/\ Answered
     /\ \E i \in 1..Len(df.cols) : In(lower(df.cols[i].name), lower(question))
     /\ ~AnyIn(AboveLookupInSpec, lower(question)))
        => LookupReports(df, question, result)

\* C5, amended: a question with 'column', 'feature' or 'variable' and no keyword of
\* an earlier branch of the code is dispatched to analyze_specific_columns, which
\* reports mean, median, std, min and max and exactly one distribution chart for
\* every numeric column the question names; the name of a column alone does not
\* select the lookup.
C5_KeywordSelectsLookup ==
    (/\ Answered
     /\ AnyIn(<<"column", "feature", "variable">>, lower(question))
     /\ ~AnyIn(AboveLookupInCode, lower(question)))
        => LookupReports(df, question, result)

C5_Witness ==
    /\ question = "tell me about column score"
    /\ result.handler = "analyze_specific_columns"
    /\ \E i \in 1..Len(df.cols) : df.cols[i].name = "score" /\ df.cols[i].dtype = "int64"
    /\ Len(result.visualizations.figs) = 1

\* the rows of the column named date whose month is April (cells are YYYY-MM-DD)
AprilRows(d) ==
    {r \in 1..d.nrows :
        \E i \in 1..Len(d.cols) :
            d.cols[i].name = "date" /\ SubSeq(d.cols[i].values[r], 6, 7) = "04"}

\* ten rows with a column named date, three of them in April
TenRowsThreeInApril(d) ==
    /\ d.nrows = 10
    /\ \E i \in 1..Len(d.cols) : d.cols[i].name = "date"
    /\ Cardinality(AprilRows(d)) = 3

\* C6 as stated: for ten rows with a column named date, three of them in April,
\* 'how many records in April' reports the count 3, not the total row count.
C6_AprilCount ==
    (Answered /\ question = "how many records in April" /\ TenRowsThreeInApril(df)) =>
        /\ ~result.raised
        /\ In(":** 3", result.text)
        /\ ~In(":** 10", result.text)

\* C6, amended: for a file with a column named date (of ten rows, three in April, or
\* of any other size), 'how many records in April' is answered by
\* analyze_count_questions with the total number of records, 10 in the example,
\* whatever the months of the rows: no row is filtered by month.
C6_TotalCount ==
    (/\ Answered
     /\ question = "how many records in April"
     /\ \E i \in 1..Len(df.cols) : df.cols[i].name = "date") =>
        /\ result.handler = "analyze_count_questions"
        /\ ~result.raised
        /\ result.text = "**Total number of records:** " \o ToString(Len(df.cols[1].values))

C6_Witness ==
    /\ question = "how many records in April"
    /\ TenRowsThreeInApril(df)
    /\ result.text = "**Total number of records:** 10"

\* C8: each General Question of the sidebar is dispatched to the analysis it names.
C8_SidebarExamples ==
    Answered =>
        /\ question = "Basic statistics" => result.handler = "get_basic_statistics"
        /\ question = "Correlation analysis" => result.handler = "get_correlation_analysis"
        /\ question = "Missing values" => result.handler = "get_missing_values"
        /\ question = "Data distributions" => result.handler = "analyze_distribution"

\* C9: a question that is one Statistics keyword alone is dispatched to
\* get_basic_statistics.
C9_StatisticsKeywordAlone ==
    (Answered /\ question \in {"statistic", "summary", "describe", "overview"}) =>
        result.handler = "get_basic_statistics"

\* the text get_missing_values writes for a column with k missing of n rows: the
\* percentage is the number of hundredths nearest to 100 * k / n
ItemReported(name, k, n, text) ==
    \E h \in {(10000 * k) \div n, (10000 * k) \div n + 1} :
        /\ 2 * h * n - 20000 * k <= n
        /\ 20000 * k - 2 * h * n <= n
        /\ In("- **" \o name \o "**: " \o ToString(k) \o " missing values ("
                  \o ToString(h \div 100) \o "." \o ToString((h % 100) \div 10)
                  \o ToString(h % 10) \o "%)\n", text)

\* the columns with a missing value are itemized, each with its count and its
\* percentage of the rows, and no other column is; the 'no missing values'
\* statement is there exactly when nothing is missing
MissingItemized(d, r) ==
    /\ ~r.raised
    /\ \A i \in 1..Len(d.cols) :
           LET k == Cardinality({row \in 1..d.nrows : d.cols[i].values[row] = ""})
           IN  /\ In("- **" \o d.cols[i].name \o "**: ", r.text) <=> k > 0
               /\ k > 0 => ItemReported(d.cols[i].name, k, d.nrows, r.text)
    /\ In("No missing values found in the dataset!", r.text)
           <=> \A i \in 1..Len(d.cols) : \A row \in 1..d.nrows : d.cols[i].values[row] # ""

\* C10 as stated: get_missing_values itemizes the columns with nulls, emits the 'no
\* missing values' statement exactly when there is none, and on a file of 0 rows
\* raises no division error and reports 0% missing for every column.
C10_ZeroPercentOnNoRows ==
    (Answered /\ result.handler = "get_missing_values") =>
        /\ MissingItemized(df, result)
        /\ df.nrows = 0 =>
               \A i \in 1..Len(df.cols) :
                   In("- **" \o df.cols[i].name \o "**: 0 missing values (0.00%)\n",
                      result.text)

\* C10, amended: get_missing_values itemizes exactly the columns whose null count is
\* greater than zero, each with its count and its percentage of the rows, and emits
\* the 'no missing values' statement exactly when the file has no null; on a file of
\* 0 rows it raises no division error, itemizes no column and reports no percentage:
\* the text is the heading and the 'no missing values' statement.
C10_MissingValues ==
    (Answered /\ result.handler = "get_missing_values") =>
        /\ MissingItemized(df, result)
        /\ df.nrows = 0 =>
               result.text = "**Missing Values Analysis:**\n\nNo missing values found in the dataset!"

\* a column with one null among three rows is itemized beside one with none
C10_Witness ==
    /\ result.handler = "get_missing_values"
    /\ df.nrows = 3
    /\ In("- **score**: 1 missing values (33.33%)\n", result.text)
    /\ ~In("- **user**", result.text)

\* the pairs <<i, j>> with i < j of n numeric columns d.cols[num[..]] whose
\* absolute correlation, as computed, is strictly above 0.5
StrongPairs(d) ==
    LET num == NumberCols(d)
    IN  {p \in (1..Len(num)) \X (1..Len(num)) :
            /\ p[1] < p[2]
            /\ CorrDefined(d.cols[num[p[1]]], d.cols[num[p[2]]])
            /\ AbsCorrVsHalf(d.cols[num[p[1]]], d.cols[num[p[2]]]) = 1}

RECURSIVE InIndexOrder(_)
\* a set of pairs as a sequence, by increasing i and then increasing j
InIndexOrder(S) ==
    IF S = {} THEN <<>>
    ELSE LET first == CHOOSE p \in S :
                          \A o \in S : p[1] < o[1] \/ (p[1] = o[1] /\ p[2] <= o[2])
         IN  <<first>> \o InIndexOrder(S \ {first})

\* the line that lists a pair of numeric columns
PairLine(d, p) ==
    LET num == NumberCols(d)
    IN  "- " \o d.cols[num[p[1]]].name \o " & " \o d.cols[num[p[2]]].name \o ": "
            \o CorrStr(d.cols[num[p[1]]], d.cols[num[p[2]]]) \o "\n"

\* C11: under two numeric columns get_correlation_analysis returns one of its two
\* messages and no chart; otherwise the text lists exactly the pairs i < j whose
\* absolute correlation is strictly above 0.5, each once, by increasing (i, j),
\* says so when there is none, and comes with exactly one heatmap.
C11_CorrelationPairs ==
    (Answered /\ result.handler = "get_correlation_analysis") =>
        LET n == Len(NumberCols(df))
            listed == InIndexOrder(StrongPairs(df))
        IN  /\ ~result.raised
            /\ n < 2 =>
                   /\ result.text \in
                          {"No numeric columns found for correlation analysis.",
                           "Need at least 2 numeric columns for correlation analysis."}
                   /\ result.visualizations = NoneViz
            /\ n >= 2 =>
                   /\ result.text =
                          "**Correlation Analysis:**\n\nCorrelation matrix computed for "
                              \o ToString(n) \o " numeric columns.\n\n"
                              \o (IF listed = <<>>
                                  THEN "No strong correlations found (|r| > 0.5)."
                                  ELSE "**Strong Correlations (|r| > 0.5):**\n"
                                           \o join("", [k \in 1..Len(listed) |->
                                                            PairLine(df, listed[k])]))
                   /\ ~result.visualizations.isNone
                   /\ Len(result.visualizations.figs) = 1
                   /\ result.visualizations.figs[1].kind = "imshow"

\* of three numeric columns the pair (1, 2), at 0.500, is listed before the
\* stronger pair (1, 3), and the pair (2, 3), exactly 0.5 and not above, is not
C11_Witness ==
    /\ result.handler = "get_correlation_analysis"
    /\ Len(NumberCols(df)) = 3
    /\ In("- score & age: 0.500\n- score & level: 1.000\n", result.text)
    /\ ~In("- age & level", result.text)
    /\ <<df.cols[2].values, df.cols[3].values>> \in DOMAIN corr_rounding

\* the heading under which a handler reports on the column named name
ReportHeading(handler, analysis_type, name) ==
    IF handler = "analyze_average_questions" THEN "**Average of '" \o name \o "':**"
    ELSE IF handler = "analyze_sum_questions" THEN "**Total sum of '" \o name \o "':**"
    ELSE IF analysis_type = "max" THEN "**Maximum value in '" \o name \o "':**"
    ELSE "**Minimum value in '" \o name \o "':**"

\* C12: the extremes, average and sum handlers report on the numeric columns the
\* question names when it names a column and on every numeric column otherwise,
\* and answer 'No numeric columns found' only when the dataset has no numeric
\* column at all.
C12_NamedNumericOrAll ==
    (/\ Answered
     /\ result.handler \in {"analyze_max_min_questions", "analyze_average_questions",
                            "analyze_sum_questions"}
     /\ ~result.raised) =>
        LET named == MentionedColumns(df, question)
            numeric == {i \in 1..Len(df.cols) : df.cols[i].dtype \in {"int64", "float64"}}
            expected == IF named = <<>> THEN numeric
                        ELSE {i \in numeric : \E k \in 1..Len(named) : named[k] = i}
        IN  /\ \A i \in numeric :
                   In(ReportHeading(result.handler, result.analysis_type, df.cols[i].name),
                      result.text) <=> i \in expected
            /\ In("No numeric columns found", result.text) => numeric = {}

\* the entity column by keyword priority: of the first word of user_like_columns
\* that occurs in a column name, the first column it occurs in; 0 when none does
EntityByPriority(d) ==
    LET matches(w) == {i \in 1..Len(d.cols) : In(w, lower(d.cols[i].name))}
        words == {k \in 1..Len(user_like_columns) : matches(user_like_columns[k]) # {}}
    IN  IF words = {} THEN 0
        ELSE LET k == CHOOSE k \in words : \A j \in words : k <= j
                 cols == matches(user_like_columns[k])
             IN  CHOOSE i \in cols : \A j \in cols : i <= j

\* C13: when exactly one row attains the maximum (minimum) of a selected column,
\* the text names that row's value in the entity column, the column chosen by
\* keyword priority ('user' before 'name' before 'username', 'student', 'customer',
\* 'person') whatever the columns' positions; with no such column it names no one.
C13_EntityByKeywordPriority ==
    (/\ Answered
     /\ result.handler = "analyze_max_min_questions"
     /\ ~result.raised) =>
        \A i \in SelectedNumeric(df, question) :
            LET c == df.cols[i]
                isMax == result.analysis_type = "max"
                rows == IF ~HasValue(c) THEN <<>>
                        ELSE RowsEqual(c, IF isMax THEN MaxOf(c) ELSE MinOf(c))
                who == "**User with " \o (IF isMax THEN "maximum " ELSE "minimum ")
                           \o c.name \o ":**"
                entity == EntityByPriority(df)
            IN  Len(rows) = 1 =>
                    IF entity = 0 THEN ~In(who, result.text)
                    ELSE In(who \o " " \o CellStr(df.cols[entity], rows[1]), result.text)

-----------------------------------------------------------------------------
(* SpecSession: the Streamlit script main().  Every change of a widget runs *)
(* the whole script once, against st.session_state.                          *)

\* the most entries of the chat history
MaxHistory == 2

\* st.file_uploader returned None
NoneFile == [isNone |-> TRUE]

\* the files a user uploads in a session, one of which cannot be parsed
SessionFiles == {TieFile, AprilFile, EmptyFile}

\* the questions a user types in a session
SessionQuestions == {"who has the maximum score", "summary"}

\* mutant: a failed load that drops the dataset held
load_data_Reset(file) ==
    IF file # NoneFile /\ ~ParseFails(file)
    THEN [ok |-> TRUE, df |-> read_csv(file), uploaded_file |-> file]
    ELSE [ok |-> FALSE, df |-> NoneDf, uploaded_file |-> NoneFile]
\* analyzer.load_data(uploaded_file): what it returns and what it leaves in the
\* analyzer
load_data(file) ==
    IF file # NoneFile /\ ~ParseFails(file)
    THEN [ok |-> TRUE, df |-> read_csv(file), uploaded_file |-> file]
    ELSE [ok |-> FALSE, df |-> df, uploaded_file |-> uploaded_file]

\* the question section is drawn: line 548, on the analyzer as it is
Shown(fu, d) == fu # NoneFile /\ d # NoneDf

\* one run of main() with the uploader holding fu, the text box holding ti, and
\* button the question of the quick button pressed ("" when none was).  The text
\* box keeps its value only while the script draws it; an exception raised by
\* analyze_question ends the run before the history is appended.
main(fu, ti, button) ==
    /\ file_uploader' = fu
    /\ df' = IF fu # NoneFile /\ uploaded_file # fu THEN load_data(fu).df ELSE df
    /\ uploaded_file' = IF fu # NoneFile /\ uploaded_file # fu
                        THEN load_data(fu).uploaded_file ELSE uploaded_file
    /\ text_input' = IF Shown(fu, df') THEN ti ELSE ""
    /\ question' = IF ~Shown(fu, df') THEN ""
                   ELSE IF button # "" THEN button ELSE ti
    /\ result' = IF question' # "" THEN analyze_question(df', question') ELSE Pending
    /\ chat_history' =
           IF question' # "" /\ ~result'.raised
           THEN Append(chat_history,
                       [question |-> question', answer |-> result'.text,
                        visualizations |-> result'.visualizations])
           ELSE chat_history
    /\ UNCHANGED corr_rounding

\* the first run of a session: lines 449-451, no file and no question
InitSession ==
    /\ df = NoneDf
    /\ uploaded_file = NoneFile
    /\ file_uploader = NoneFile
    /\ text_input = ""
    /\ chat_history = <<>>
    /\ submitted = <<>>
    /\ question = ""
    /\ result = Pending
    /\ corr_rounding \in Roundings(SessionFiles)

Room == Len(chat_history) < MaxHistory /\ Len(submitted) < MaxHistory

\* the user uploads a file, or another one
Upload(f) ==
    /\ Room
    /\ f # file_uploader
    /\ main(f, text_input, "")
    /\ UNCHANGED submitted

\* the user removes the file from the uploader
Remove ==
    /\ Room
    /\ file_uploader # NoneFile
    /\ main(NoneFile, text_input, "")
    /\ UNCHANGED submitted

\* the user changes the text box to q and presses Enter
EnterText(q) ==
    /\ Room
    /\ Shown(file_uploader, df)
    /\ q # text_input
    /\ main(file_uploader, q, "")
    /\ submitted' = IF q # "" THEN Append(submitted, q) ELSE submitted

\* the user presses the quick button that asks b
PressButton(b) ==
    /\ Room
    /\ Shown(file_uploader, df)
    /\ main(file_uploader, text_input, b)
    /\ submitted' = Append(submitted, b)

NextSession ==
    \/ \E f \in SessionFiles : Upload(f)
    \/ Remove
    \/ \E q \in SessionQuestions \cup {""} : EnterText(q)
    \/ \E b \in ButtonQuestions : PressButton(b)

SpecSession == InitSession /\ [][NextSession]_vars

\* C7: a step changes the chat history only by appending one entry, and the entry
\* is the question the user submitted in that step: so each submitted question is
\* appended once, in submission order, and no entry is modified or removed.
C7_AppendedOncePerSubmission ==
    [][chat_history' # chat_history =>
           /\ submitted' # submitted
           /\ Len(chat_history') = Len(chat_history) + 1
           /\ SubSeq(chat_history', 1, Len(chat_history)) = chat_history
           /\ chat_history'[Len(chat_history')].question = submitted'[Len(submitted')]]_vars

\* C14: load_data returns False and leaves df and uploaded_file as they were when
\* it is given no file or a file that cannot be parsed; so a run of main() whose
\* uploader holds a new file that fails to load keeps the dataset and the file
\* recorded before, and answers the question of that run against that dataset.
C14_FailedLoadKeepsDataset ==
    [][/\ load_data(NoneFile) = [ok |-> FALSE, df |-> df, uploaded_file |-> uploaded_file]
       /\ (/\ file_uploader' # NoneFile
           /\ file_uploader' # uploaded_file
           /\ ParseFails(file_uploader')) =>
              /\ load_data(file_uploader') =
                     [ok |-> FALSE, df |-> df, uploaded_file |-> uploaded_file]
              /\ df' = df
              /\ uploaded_file' = uploaded_file
              /\ (df # NoneDf /\ question' # "") =>
                     /\ result' = analyze_question(df, question')
                     /\ ~result'.raised =>
                            /\ Len(chat_history') = Len(chat_history) + 1
                            /\ chat_history'[Len(chat_history')].answer = result'.text]_vars

\* with the unparseable file in the uploader, a question has been answered from
\* the file loaded before it
C14_Witness ==
    /\ file_uploader = EmptyFile
    /\ uploaded_file = TieFile
    /\ df = read_csv(TieFile)
    /\ question = "summary"
    /\ result = analyze_question(read_csv(TieFile), "summary")
    /\ ~result.raised
    /\ chat_history # <<>>
    /\ chat_history[Len(chat_history)].answer = result.text

====
